---- MODULE Spec2Model ----
(***************************************************************************)
(* Model of the bounded TTL/LRU key-presence cache (lru_cache.py) and of   *)
(* the batch refresh layer built on top of it (batch_refresh_cache.py).    *)
(*                                                                         *)
(* The OrderedDict of the cache is a sequence of entries [key, ts]; its    *)
(* first element is the eviction end (popitem(last=False)), its last       *)
(* element the most recently used.  Times are integers (seconds).          *)
(***************************************************************************)
EXTENDS Integers, Sequences, FiniteSets, TLC

\* ----------------------------------------------------------------- bounds
NumKeys      == 3      \* keys are 1..NumKeys
MaxLen       == 2      \* longest key list of one call
MaxTime      == 3      \* request times are 0..MaxTime
MaxCalls     == 3      \* operations per behaviour
MaxCapacity  == 3      \* max_size is chosen in 1..MaxCapacity
NumLongKeys  == 2      \* keys of the long key lists are 1..NumLongKeys
MaxLongLen   == 3      \* longest of the long key lists
MaxThreshold == 3      \* max_request_size is chosen in 1..MaxThreshold
Ttl          == 2      \* ttl in seconds

\* half_ttl = 0.5 (default of BatchRefreshCache.__init__), as a fraction
HalfTtlNum == 1
HalfTtlDen == 2

Keys     == 1..NumKeys
Times    == 0..MaxTime
KeyLists == UNION {[1..n -> Keys] : n \in 0..MaxLen}

VARIABLES
    \* configuration (set by the constructor, never changed)
    layer,             \* "lru" = LRUCache, "batch" = BatchRefreshCache
    max_size,
    ttl_seconds,
    max_request_size,
    \* LRUCache fields
    cache, hits, misses, bulk_misses, evictions, expirations,
    \* BatchRefreshCache fields
    refresh_batch, batch_updates,
    \* history of the last operation (observation only)
    calls,             \* number of operations done
    op,                \* "init", "get" or "clear"
    lastKeys, lastTime,\* arguments of the last get
    pre,               \* the object's fields before the last operation
    outcome,           \* branch taken for each key occurrence of the last get
    evicted,           \* evictions of the last get: [key, lru, held, left]
    lru,               \* held keys, least recently touched first
    queued,            \* refresh_batch right after the extend of the last get
    mid,               \* cache when super().get returned in the last get
    touched_in,        \* for each held key, the number of the operation that
                       \* last inserted, hit, reinserted or refreshed it
    raised,            \* exception that escaped the last operation, or "none"
    \* a second object (only the paired specification gives it calls)
    base               \* fields of an LRUCache with the same max_size and ttl

config == <<layer, max_size, ttl_seconds, max_request_size>>
fields == <<cache, hits, misses, bulk_misses, evictions, expirations,
            refresh_batch, batch_updates>>
history == <<calls, op, lastKeys, lastTime, pre, outcome, evicted, lru,
             queued, mid, touched_in, raised>>
vars == <<config, fields, history, base>>

\* ------------------------------------------------------------ OrderedDict
Entry(k, t) == [key |-> k, ts |-> t]

CacheKeys(c) == {c[i].key : i \in DOMAIN c}

Contains(c, k) == \E i \in DOMAIN c : c[i].key = k

Timestamp(c, k) == c[CHOOSE i \in DOMAIN c : c[i].key = k].ts

Without(s, k) == SelectSeq(s, LAMBDA x : x # k)

\* variant: the key is not promoted
MoveToEndKeepsPlace(c, k) == c

\* OrderedDict.move_to_end(key)
MoveToEnd(c, k) ==
    Append(SelectSeq(c, LAMBDA e : e.key # k), Entry(k, Timestamp(c, k)))

\* OrderedDict.__setitem__: an existing key keeps its position
SetItem(c, k, t) ==
    IF Contains(c, k)
    THEN [i \in DOMAIN c |-> IF c[i].key = k THEN Entry(k, t) ELSE c[i]]
    ELSE Append(c, Entry(k, t))

\* OrderedDict.popitem(last=False)
PopItemFirst(c) == Tail(c)

\* position of a held key, 1 = eviction end
Pos(c, k) == CHOOSE i \in DOMAIN c : c[i].key = k

\* observation: k becomes the most recently touched key
Touch(l, k) == Append(Without(l, k), k)

\* ---------------------------------------------------------------- LRUCache
\* variant: an entry expires already at age ttl
IsExpiredAtTimeInclusive(cache_timestamp, request_time, ttl) ==
    (request_time - cache_timestamp) >= ttl

\* LRUCache._is_expired_at_time
IsExpiredAtTime(cache_timestamp, request_time, ttl) ==
    (request_time - cache_timestamp) > ttl

\* variant: a hit also rewrites the entry with the request time
HitKeyResetsTimestamp(st, key) ==
    [st EXCEPT !.cache = MoveToEnd(SetItem(@, key, st.request_time), key),
               !.hits = @ + 1,
               !.lru = Touch(@, key),
               !.outcome = Append(@, "hit")]

\* LRUCache.get, the branch of a present and unexpired key
HitKey(st, key) ==
    [st EXCEPT !.cache = MoveToEnd(@, key),
               !.hits = @ + 1,
               !.lru = Touch(@, key),
               !.outcome = Append(@, "hit")]

\* LRUCache.get, the branch of a present and expired key
ExpiredKey(st, key) ==
    [st EXCEPT !.expired_keys = Append(@, key),
               !.outcome = Append(@, "expired")]

\* variant: a repeated absent key is recorded once
MissingKeyOnce(st, key) ==
    IF key \in {st.missing_keys[i] : i \in DOMAIN st.missing_keys}
    THEN [st EXCEPT !.outcome = Append(@, "miss")]
    ELSE [st EXCEPT !.missing_keys = Append(@, key),
                    !.outcome = Append(@, "miss")]

\* LRUCache.get, the branch of an absent key
MissingKey(st, key) ==
    [st EXCEPT !.missing_keys = Append(@, key),
               !.outcome = Append(@, "miss")]

\* the for loop of LRUCache.get over keys
RECURSIVE ClassifyKeys(_, _, _)
ClassifyKeys(st, keys, request_time) ==
    IF keys = <<>> THEN st
    ELSE LET key == Head(keys) IN
      IF Contains(st.cache, key)
      THEN IF IsExpiredAtTime(Timestamp(st.cache, key), request_time, st.ttl)
           THEN ClassifyKeys(ExpiredKey(st, key), Tail(keys), request_time)
           ELSE ClassifyKeys(HitKey(st, key), Tail(keys), request_time)
      ELSE ClassifyKeys(MissingKey(st, key), Tail(keys), request_time)

\* variant: an expired entry is deleted instead of rewritten
ReinsertKeyDeletes(st, key, request_time) ==
    [st EXCEPT !.cache = SelectSeq(@, LAMBDA e : e.key # key),
               !.expirations = @ + 1,
               !.lru = Without(@, key)]

\* variant: an expired entry is promoted and counted but keeps its timestamp
ReinsertKeyKeepsTimestamp(st, key, request_time) ==
    [st EXCEPT !.cache = MoveToEnd(@, key),
               !.expirations = @ + 1,
               !.lru = Touch(@, key)]

\* one iteration of the loop over expired_keys of LRUCache.get
ReinsertKey(st, key, request_time) ==
    [st EXCEPT !.cache = MoveToEnd(SetItem(@, key, request_time), key),
               !.expirations = @ + 1,
               !.lru = Touch(@, key)]

\* the loop over expired_keys of LRUCache.get
RECURSIVE ReinsertExpired(_, _, _)
ReinsertExpired(st, keys, request_time) ==
    IF keys = <<>> THEN st
    ELSE ReinsertExpired(ReinsertKey(st, Head(keys), request_time),
                         Tail(keys), request_time)

\* variant: the capacity test lets the cache grow one entry too far
AddKeyOffByOne(st, key, timestamp) ==
    LET full == Len(st.cache) > st.max_size
        c1   == IF full THEN PopItemFirst(st.cache) ELSE st.cache
        l1   == IF full THEN Without(st.lru, st.cache[1].key) ELSE st.lru
        ev   == IF full
                THEN Append(st.evicted,
                            [key  |-> st.cache[1].key,
                             lru  |-> Head(st.lru),
                             held |-> CacheKeys(st.cache),
                             left |-> CacheKeys(c1)])
                ELSE st.evicted
    IN [st EXCEPT !.cache = SetItem(c1, key, timestamp),
                  !.evictions = IF full THEN @ + 1 ELSE @,
                  !.evicted = ev,
                  !.lru = IF Contains(c1, key) THEN l1 ELSE Append(l1, key)]

\* one iteration of the loop of _add_keys_to_cache; popitem on an empty
\* OrderedDict raises KeyError
AddKey(st, key, timestamp) ==
  IF Len(st.cache) >= st.max_size /\ st.cache = <<>>
  THEN [st EXCEPT !.raised = "KeyError"]
  ELSE
    LET full == Len(st.cache) >= st.max_size
        c1   == IF full THEN PopItemFirst(st.cache) ELSE st.cache
        l1   == IF full THEN Without(st.lru, st.cache[1].key) ELSE st.lru
        ev   == IF full
                THEN Append(st.evicted,
                            [key  |-> st.cache[1].key,
                             lru  |-> Head(st.lru),
                             held |-> CacheKeys(st.cache),
                             left |-> CacheKeys(c1)])
                ELSE st.evicted
    IN [st EXCEPT !.cache = SetItem(c1, key, timestamp),
                  !.evictions = IF full THEN @ + 1 ELSE @,
                  !.evicted = ev,
                  !.lru = IF Contains(c1, key) THEN l1 ELSE Append(l1, key)]

RECURSIVE AddKeysToCache(_, _, _)
AddKeysToCache(st, keys, timestamp) ==
    IF keys = <<>> \/ st.raised # "none" THEN st
    ELSE AddKeysToCache(AddKey(st, Head(keys), timestamp), Tail(keys),
                        timestamp)

\* variant: bulk_misses counts the missing keys of the request
LRUGetCountsKeys(st0, keys, request_time) ==
    IF keys = <<>> THEN st0
    ELSE
      LET st1 == ClassifyKeys([st0 EXCEPT !.missing_keys = <<>>,
                                          !.expired_keys = <<>>,
                                          !.request_time = request_time],
                              keys, request_time)
          all_missing_keys == st1.missing_keys \o st1.expired_keys
          st2 == ReinsertExpired(st1, st1.expired_keys, request_time)
          st3 == IF st1.missing_keys # <<>>
                 THEN AddKeysToCache(st2, st1.missing_keys, request_time)
                 ELSE st2
      IN IF all_missing_keys # <<>>
         THEN [st3 EXCEPT !.misses = @ + Len(all_missing_keys),
                          !.bulk_misses = @ + Len(all_missing_keys)]
         ELSE st1

\* variant: no early return for an empty list and no test of
\* all_missing_keys before the counters
LRUGetNoGuards(st0, keys, request_time) ==
    LET st1 == ClassifyKeys([st0 EXCEPT !.missing_keys = <<>>,
                                        !.expired_keys = <<>>,
                                        !.request_time = request_time],
                            keys, request_time)
        all_missing_keys == st1.missing_keys \o st1.expired_keys
        st2 == ReinsertExpired(st1, st1.expired_keys, request_time)
        st3 == IF st1.missing_keys # <<>>
               THEN AddKeysToCache(st2, st1.missing_keys, request_time)
               ELSE st2
    IN [st3 EXCEPT !.misses = @ + Len(all_missing_keys),
                   !.bulk_misses = @ + 1]

\* LRUCache.get
LRUGet(st0, keys, request_time) ==
    IF keys = <<>> THEN st0
    ELSE
      LET st1 == ClassifyKeys([st0 EXCEPT !.missing_keys = <<>>,
                                          !.expired_keys = <<>>,
                                          !.request_time = request_time],
                              keys, request_time)
          all_missing_keys == st1.missing_keys \o st1.expired_keys
          st2 == ReinsertExpired(st1, st1.expired_keys, request_time)
          st3 == IF st1.missing_keys # <<>>
                 THEN AddKeysToCache(st2, st1.missing_keys, request_time)
                 ELSE st2
      IN IF st3.raised # "none" THEN st3
         ELSE IF all_missing_keys # <<>>
         THEN [st3 EXCEPT !.misses = @ + Len(all_missing_keys),
                          !.bulk_misses = @ + 1]
         ELSE st1

\* ------------------------------------------------------- BatchRefreshCache
\* variant: an entry is near expiration already at age half_ttl * ttl
IsNearExpirationInclusive(cache_timestamp, request_time, ttl) ==
    (request_time - cache_timestamp) * HalfTtlDen >= ttl * HalfTtlNum

\* BatchRefreshCache._is_near_expiration
IsNearExpiration(cache_timestamp, request_time, ttl) ==
    (request_time - cache_timestamp) * HalfTtlDen > ttl * HalfTtlNum

\* the first loop of BatchRefreshCache.get: near_expired_keys
RECURSIVE NearExpiredKeys(_, _, _)
NearExpiredKeys(st, keys, request_time) ==
    IF keys = <<>> THEN <<>>
    ELSE LET key  == Head(keys)
             rest == NearExpiredKeys(st, Tail(keys), request_time)
         IN IF /\ Contains(st.cache, key)
               /\ ~IsExpiredAtTime(Timestamp(st.cache, key), request_time,
                                   st.ttl)
               /\ IsNearExpiration(Timestamp(st.cache, key), request_time,
                                   st.ttl)
               /\ \A i \in DOMAIN st.refresh_batch : st.refresh_batch[i] # key
            THEN <<key>> \o rest
            ELSE rest

\* variant: a queued key that was evicted is written back
RefreshKeyReinserts(st, key, request_time) ==
    [st EXCEPT !.cache = MoveToEnd(SetItem(@, key, request_time), key),
               !.lru = Touch(@, key)]

\* variant: a refreshed key is promoted but keeps its timestamp
RefreshKeyKeepsTimestamp(st, key, request_time) ==
    IF Contains(st.cache, key)
    THEN [st EXCEPT !.cache = MoveToEnd(@, key),
                    !.lru = Touch(@, key)]
    ELSE st

\* variant: a refreshed key gets the request time but is not promoted
RefreshKeyKeepsPlace(st, key, request_time) ==
    IF Contains(st.cache, key)
    THEN [st EXCEPT !.cache = SetItem(@, key, request_time),
                    !.lru = Touch(@, key)]
    ELSE st

\* one iteration of the loop of _process_refresh_batch
RefreshKey(st, key, request_time) ==
    IF Contains(st.cache, key)
    THEN [st EXCEPT !.cache = MoveToEnd(SetItem(@, key, request_time), key),
                    !.lru = Touch(@, key)]
    ELSE st

\* the loop of _process_refresh_batch over refresh_batch
RECURSIVE RefreshKeys(_, _, _)
RefreshKeys(st, keys, request_time) ==
    IF keys = <<>> THEN st
    ELSE RefreshKeys(RefreshKey(st, Head(keys), request_time), Tail(keys),
                     request_time)

\* variant: the batch also runs when a queued key has expired
ProcessRefreshBatchTimed(st, request_time) ==
    IF \/ Len(st.refresh_batch) >= st.max_request_size
       \/ \E i \in DOMAIN st.refresh_batch :
            /\ Contains(st.cache, st.refresh_batch[i])
            /\ IsExpiredAtTime(Timestamp(st.cache, st.refresh_batch[i]),
                               request_time, st.ttl)
    THEN [RefreshKeys(st, st.refresh_batch, request_time)
            EXCEPT !.batch_updates = @ + 1,
                   !.refresh_batch = <<>>]
    ELSE st

\* variant: the batch runs only above max_request_size
ProcessRefreshBatchStrict(st, request_time) ==
    IF Len(st.refresh_batch) > st.max_request_size
    THEN [RefreshKeys(st, st.refresh_batch, request_time)
            EXCEPT !.batch_updates = @ + 1,
                   !.refresh_batch = <<>>]
    ELSE st

\* BatchRefreshCache._process_refresh_batch
ProcessRefreshBatch(st, request_time) ==
    IF Len(st.refresh_batch) >= st.max_request_size
    THEN [RefreshKeys(st, st.refresh_batch, request_time)
            EXCEPT !.batch_updates = @ + 1,
                   !.refresh_batch = <<>>]
    ELSE st

\* variant: enqueueing a key also resets its timestamp
BatchGetRefreshesOnEnqueue(st0, keys, request_time) ==
    IF keys = <<>> THEN st0
    ELSE
      LET near_expired_keys == NearExpiredKeys(st0, keys, request_time)
          st1 == [RefreshKeys(st0, near_expired_keys, request_time)
                    EXCEPT !.refresh_batch = @ \o near_expired_keys]
          st2 == LRUGet([st1 EXCEPT !.queued = st1.refresh_batch],
                        keys, request_time)
      IN IF st2.raised # "none" THEN [st2 EXCEPT !.mid = st2.cache]
         ELSE ProcessRefreshBatch([st2 EXCEPT !.mid = st2.cache],
                                  request_time)

\* BatchRefreshCache.get
BatchGet(st0, keys, request_time) ==
    IF keys = <<>> THEN st0
    ELSE
      LET near_expired_keys == NearExpiredKeys(st0, keys, request_time)
          st1 == [st0 EXCEPT !.refresh_batch = @ \o near_expired_keys]
          st2 == LRUGet([st1 EXCEPT !.queued = st1.refresh_batch],
                        keys, request_time)
      IN IF st2.raised # "none" THEN [st2 EXCEPT !.mid = st2.cache]
         ELSE ProcessRefreshBatch([st2 EXCEPT !.mid = st2.cache],
                                  request_time)

\* ------------------------------------------------------------ state machine
Fields ==
    [cache |-> cache, hits |-> hits, misses |-> misses,
     bulk_misses |-> bulk_misses, evictions |-> evictions,
     expirations |-> expirations, refresh_batch |-> refresh_batch,
     batch_updates |-> batch_updates]

\* the object at the start of a get, with the call's locals and observations
Start ==
    [cache |-> cache, hits |-> hits, misses |-> misses,
     bulk_misses |-> bulk_misses, evictions |-> evictions,
     expirations |-> expirations, refresh_batch |-> refresh_batch,
     batch_updates |-> batch_updates,
     max_size |-> max_size, ttl |-> ttl_seconds,
     max_request_size |-> max_request_size,
     missing_keys |-> <<>>, expired_keys |-> <<>>, request_time |-> 0,
     outcome |-> <<>>, evicted |-> <<>>, lru |-> lru,
     queued |-> refresh_batch, mid |-> cache, raised |-> "none"]

\* the object and the observations after a get
Record(st, keys, request_time) ==
    /\ cache' = st.cache
    /\ hits' = st.hits
    /\ misses' = st.misses
    /\ bulk_misses' = st.bulk_misses
    /\ evictions' = st.evictions
    /\ expirations' = st.expirations
    /\ refresh_batch' = st.refresh_batch
    /\ batch_updates' = st.batch_updates
    /\ outcome' = st.outcome
    /\ evicted' = st.evicted
    /\ lru' = st.lru
    /\ queued' = st.queued
    /\ mid' = st.mid
    /\ raised' = st.raised
    /\ touched_in' =
         [k \in CacheKeys(st.cache) |->
            IF \/ \E i \in DOMAIN keys : keys[i] = k
               \/ /\ st.batch_updates > batch_updates
                  /\ \E i \in DOMAIN st.queued : st.queued[i] = k
            THEN calls + 1
            ELSE touched_in[k]]
    /\ pre' = Fields
    /\ lastKeys' = keys
    /\ lastTime' = request_time
    /\ op' = "get"
    /\ calls' = calls + 1
    /\ UNCHANGED config

Finish(st, keys, request_time) ==
    /\ Record(st, keys, request_time)
    /\ UNCHANGED base

\* LRUCache.__init__ / BatchRefreshCache.__init__
InitFields ==
    /\ cache = <<>>
    /\ hits = 0 /\ misses = 0 /\ bulk_misses = 0
    /\ evictions = 0 /\ expirations = 0
    /\ refresh_batch = <<>>
    /\ batch_updates = 0

\* LRUCache.__init__ of the second object
InitBase ==
    base = [cache |-> <<>>, hits |-> 0, misses |-> 0, bulk_misses |-> 0,
            evictions |-> 0, expirations |-> 0]

InitHistory ==
    /\ calls = 0
    /\ op = "init"
    /\ lastKeys = <<>>
    /\ lastTime = 0
    /\ pre = Fields
    /\ outcome = <<>>
    /\ evicted = <<>>
    /\ lru = <<>>
    /\ queued = <<>>
    /\ mid = <<>>
    /\ touched_in = <<>>
    /\ raised = "none"

Init ==
    /\ layer \in {"lru", "batch"}
    /\ max_size \in 1..MaxCapacity
    /\ ttl_seconds = Ttl
    /\ max_request_size \in (IF layer = "batch" THEN 1..MaxThreshold ELSE {1})
    /\ InitFields
    /\ InitHistory
    /\ InitBase

\* cache.get(keys, request_time) on an LRUCache
LookupLRU ==
    /\ layer = "lru"
    /\ calls < MaxCalls
    /\ \E keys \in KeyLists, request_time \in Times :
         LET st == LRUGet(Start, keys, request_time)
         IN Finish([st EXCEPT !.mid = st.cache], keys, request_time)

\* cache.get(keys, request_time) on a BatchRefreshCache
LookupBatch ==
    /\ layer = "batch"
    /\ calls < MaxCalls
    /\ \E keys \in KeyLists, request_time \in Times :
         Finish(BatchGet(Start, keys, request_time), keys, request_time)

\* variant: the batch layer does not override clear
ClearBaseOnly ==
    /\ calls < MaxCalls
    /\ cache' = <<>>
    /\ hits' = 0 /\ misses' = 0 /\ bulk_misses' = 0
    /\ evictions' = 0 /\ expirations' = 0
    /\ UNCHANGED <<batch_updates, refresh_batch>>
    /\ pre' = Fields
    /\ op' = "clear"
    /\ calls' = calls + 1
    /\ lru' = <<>>
    /\ outcome' = <<>> /\ evicted' = <<>>
    /\ queued' = <<>> /\ mid' = <<>>
    /\ touched_in' = <<>>
    /\ raised' = "none"
    /\ UNCHANGED <<lastKeys, lastTime, config, base>>

\* LRUCache.clear / BatchRefreshCache.clear
Clear ==
    /\ calls < MaxCalls
    /\ cache' = <<>>
    /\ hits' = 0 /\ misses' = 0 /\ bulk_misses' = 0
    /\ evictions' = 0 /\ expirations' = 0
    /\ batch_updates' = IF layer = "batch" THEN 0 ELSE batch_updates
    /\ refresh_batch' = IF layer = "batch" THEN <<>> ELSE refresh_batch
    /\ pre' = Fields
    /\ op' = "clear"
    /\ calls' = calls + 1
    /\ lru' = <<>>
    /\ outcome' = <<>> /\ evicted' = <<>>
    /\ queued' = <<>> /\ mid' = <<>>
    /\ touched_in' = <<>>
    /\ raised' = "none"
    /\ UNCHANGED <<lastKeys, lastTime, config, base>>

Next == LookupLRU \/ LookupBatch \/ Clear

Spec == Init /\ [][Next]_vars

\* the constructors store their arguments as they are given
InitAnyConfig ==
    /\ layer \in {"lru", "batch"}
    /\ max_size \in 0..1
    /\ ttl_seconds \in {0, Ttl}
    /\ max_request_size \in (IF layer = "batch" THEN 0..1 ELSE {1})
    /\ InitFields
    /\ InitHistory
    /\ InitBase

SpecAnyConfig == InitAnyConfig /\ [][Next]_vars

\* ------------------------------------------------------- longer key lists
\* the same calls with lists long enough to repeat an absent key next to
\* a held one
LongKeyLists == UNION {[1..n -> 1..NumLongKeys] : n \in 0..MaxLongLen}

LongLookupLRU ==
    /\ layer = "lru"
    /\ calls < MaxCalls
    /\ \E keys \in LongKeyLists, request_time \in Times :
         LET st == LRUGet(Start, keys, request_time)
         IN Finish([st EXCEPT !.mid = st.cache], keys, request_time)

LongLookupBatch ==
    /\ layer = "batch"
    /\ calls < MaxCalls
    /\ \E keys \in LongKeyLists, request_time \in Times :
         Finish(BatchGet(Start, keys, request_time), keys, request_time)

NextLongLists ==
    \/ LongLookupLRU
    \/ LongLookupBatch
    \/ Clear

SpecLongLists == Init /\ [][NextLongLists]_vars

\* ------------------------------------------------- two objects, same calls
\* a BatchRefreshCache and an LRUCache constructed with the same max_size
\* and ttl
InitPair ==
    /\ layer = "batch"
    /\ max_size \in 1..MaxCapacity
    /\ ttl_seconds = Ttl
    /\ max_request_size \in 1..MaxThreshold
    /\ InitFields
    /\ InitHistory
    /\ InitBase

\* the second object at the start of a get
BaseStart ==
    [Start EXCEPT !.cache = base.cache, !.hits = base.hits,
                  !.misses = base.misses, !.bulk_misses = base.bulk_misses,
                  !.evictions = base.evictions,
                  !.expirations = base.expirations,
                  !.refresh_batch = <<>>, !.batch_updates = 0,
                  !.lru = [i \in DOMAIN base.cache |-> base.cache[i].key],
                  !.queued = <<>>, !.mid = base.cache]

\* the fields of the second object after a get
BaseFields(st) ==
    [cache |-> st.cache, hits |-> st.hits, misses |-> st.misses,
     bulk_misses |-> st.bulk_misses, evictions |-> st.evictions,
     expirations |-> st.expirations]

\* the same get(keys, request_time) on both objects
LookupBoth ==
    /\ calls < MaxCalls
    /\ \E keys \in KeyLists, request_time \in Times :
         /\ Record(BatchGet(Start, keys, request_time), keys, request_time)
         /\ base' = BaseFields(LRUGet(BaseStart, keys, request_time))

SpecPair == InitPair /\ [][LookupBoth]_vars

\* ------------------------------------------------- the scenario of the spec
\* BatchRefreshCache(max_size=3, ttl=10 s, half_ttl=0.5, max_request_size=2)
ExampleInit ==
    /\ layer = "batch"
    /\ max_size = 3
    /\ ttl_seconds = 10
    /\ max_request_size = 2
    /\ InitFields
    /\ InitHistory
    /\ InitBase

ExampleKeyLists == {<<1, 2, 3>>, <<4>>, <<2>>, <<3>>}

ExampleTimes == {0, 1, 5, 6, 7, 12}

\* cache.get(keys, request_time) with the key lists and times of the
\* scenario, request times increasing as in a trace sorted by timestamp
ExampleLookup ==
    \E keys \in ExampleKeyLists, request_time \in ExampleTimes :
      /\ op = "init" \/ request_time > lastTime
      /\ Finish(BatchGet(Start, keys, request_time), keys, request_time)

SpecExample == ExampleInit /\ [][ExampleLookup]_vars

\* ------------------------------------------------------------ observations
Range(s) == {s[i] : i \in DOMAIN s}

Max(a, b) == IF a >= b THEN a ELSE b

IsGet == op = "get"

Occurrences == DOMAIN lastKeys

\* classification of a key against the cache as it was before the last get
PreHeld(k) == \E i \in DOMAIN pre.cache : pre.cache[i].key = k

PreTs(k) == pre.cache[CHOOSE i \in DOMAIN pre.cache : pre.cache[i].key = k].ts

PreAge(k) == lastTime - PreTs(k)

Absent(k) == ~PreHeld(k)

Expired(k) == PreHeld(k) /\ PreAge(k) > ttl_seconds

Unexpired(k) == PreHeld(k) /\ PreAge(k) <= ttl_seconds

\* the observation lru names exactly the held keys, each once
LruTracksCache ==
    /\ Range(lru) = CacheKeys(cache)
    /\ Len(lru) = Len(cache)
    /\ Cardinality(CacheKeys(cache)) = Len(cache)

\* -------------------------------------------------------------- properties

\* C1: after every get, on an LRUCache or a BatchRefreshCache built with
\* max_size >= 1, the number of held entries is at most max_size.
SizeWithinMaxSize ==
    IsGet => /\ Len(cache) <= max_size
             /\ Cardinality(CacheKeys(cache)) <= max_size

\* C1 witness: a get on a full cache inserted a key and evicted for it
FullCacheInsertWitness ==
    /\ IsGet
    /\ Len(pre.cache) = max_size
    /\ Len(cache) = max_size
    /\ evictions > pre.evictions
    /\ \E i \in Occurrences : Absent(lastKeys[i])

EvictionsEqualOverflow ==
    IsGet =>
      evictions - pre.evictions =
        Max(0, Len(pre.cache)
               + Cardinality({k \in Range(lastKeys) : Absent(k)})
               - max_size)

\* C4: a held entry with timestamp t0 looked up at time t is a hit when
\* t - t0 <= ttl, equality included, and an expiration when t - t0 > ttl.
TtlBoundary ==
    IsGet =>
      /\ Len(outcome) = Len(lastKeys)
      /\ \A i \in Occurrences :
           PreHeld(lastKeys[i]) =>
             /\ lastTime - PreTs(lastKeys[i]) <= ttl_seconds
                  => outcome[i] = "hit"
             /\ lastTime - PreTs(lastKeys[i]) > ttl_seconds
                  => outcome[i] = "expired"

\* C4 witness: one get met an entry of age exactly ttl (a hit) and an entry
\* one second older (an expiration)
TtlBoundaryWitness ==
    /\ IsGet
    /\ \E i \in Occurrences :
         /\ PreHeld(lastKeys[i])
         /\ PreAge(lastKeys[i]) = ttl_seconds
         /\ outcome[i] = "hit"
    /\ \E j \in Occurrences :
         /\ PreHeld(lastKeys[j])
         /\ PreAge(lastKeys[j]) = ttl_seconds + 1
         /\ outcome[j] = "expired"

\* the last get ran the refresh batch over key k
Flushed(k) ==
    /\ layer = "batch"
    /\ Len(queued) >= max_request_size
    /\ k \in Range(queued)

\* C5 (as stated): after a get, a key that was a hit has the request time
\* as its timestamp.
HitResetsTimestamp ==
    IsGet =>
      \A i \in Occurrences :
        (Unexpired(lastKeys[i]) /\ Contains(cache, lastKeys[i]))
          => Timestamp(cache, lastKeys[i]) = lastTime

\* C5 (amended): a hit promotes the entry and leaves its timestamp as it
\* was; the timestamp of a hit key changes only when the refresh batch of
\* the same get rewrites it.
HitKeepsTimestamp ==
    IsGet =>
      \A i \in Occurrences :
        LET k == lastKeys[i] IN
          Unexpired(k) =>
            /\ Contains(mid, k) =>
                 /\ Timestamp(mid, k) = PreTs(k)
                 /\ \A x \in CacheKeys(mid) \ Range(lastKeys) :
                      Pos(mid, x) < Pos(mid, k)
            /\ Contains(cache, k) =>
                 Timestamp(cache, k) =
                   IF Flushed(k) THEN lastTime ELSE PreTs(k)

\* C5 witness: a hit at a time later than the entry's timestamp, on the
\* oldest of at least two entries, with no refresh batch on it
HitLaterThanTimestampWitness ==
    /\ IsGet
    /\ Len(cache) >= 2
    /\ \E i \in Occurrences :
         LET k == lastKeys[i] IN
           /\ Unexpired(k)
           /\ lastTime > PreTs(k)
           /\ ~Flushed(k)
           /\ pre.cache[1].key = k
           /\ Contains(cache, k)
           /\ Pos(cache, k) = Len(cache)

CountOccurrences(P(_)) == Cardinality({i \in Occurrences : P(lastKeys[i])})

\* C6: a present key older than ttl is an expiration: expirations grows by
\* one per such lookup, evictions grow only for absent keys, the entry gets
\* the request time and moves behind every other held entry, and it stays
\* held when the get has no absent key.
ExpirationReinserts ==
    IsGet =>
      /\ expirations - pre.expirations = CountOccurrences(Expired)
      /\ evictions - pre.evictions <= CountOccurrences(Absent)
      /\ \A i \in Occurrences :
           LET k == lastKeys[i] IN
             Expired(k) =>
               /\ Contains(mid, k) =>
                    /\ Timestamp(mid, k) = lastTime
                    /\ \A x \in CacheKeys(mid) :
                         (PreHeld(x) /\ ~Expired(x))
                           => Pos(mid, x) < Pos(mid, k)
               /\ Contains(cache, k) => Timestamp(cache, k) = lastTime
               /\ CountOccurrences(Absent) = 0 => Contains(cache, k)

\* C6 witness: the oldest of two entries expired in a get without absent
\* keys and is now behind the other one
ExpiredKeyPromotedWitness ==
    /\ IsGet
    /\ Len(pre.cache) >= 2
    /\ CountOccurrences(Absent) = 0
    /\ Expired(pre.cache[1].key)
    /\ pre.cache[1].key \in Range(lastKeys)
    /\ ~Expired(pre.cache[2].key)
    /\ expirations = pre.expirations + 1
    /\ cache[Len(cache)].key = pre.cache[1].key

\* C7: every key occurrence of a get is counted once, classified against
\* the cache as it was when the get started.
CountsEveryOccurrence ==
    IsGet =>
      /\ hits - pre.hits = CountOccurrences(Unexpired)
      /\ misses - pre.misses
           = CountOccurrences(Absent) + CountOccurrences(Expired)
      /\ expirations - pre.expirations = CountOccurrences(Expired)
      /\ (hits - pre.hits) + (misses - pre.misses) = Len(lastKeys)

\* C7 witness: a get repeated an absent key and counted two misses
RepeatedAbsentKeyWitness ==
    /\ IsGet
    /\ Len(lastKeys) = 2
    /\ lastKeys[1] = lastKeys[2]
    /\ Absent(lastKeys[1])
    /\ misses = pre.misses + 2

\* C8: a get raises bulk_misses by one when some requested key is absent or
\* expired, and leaves it alone when every requested key is a hit.
BulkMissCountsRequests ==
    IsGet =>
      bulk_misses - pre.bulk_misses =
        IF \E i \in Occurrences : Absent(lastKeys[i]) \/ Expired(lastKeys[i])
        THEN 1 ELSE 0

\* C8 witness: a get with two missing keys raised bulk_misses by one
TwoMissesOneBulkMissWitness ==
    /\ IsGet
    /\ misses = pre.misses + 2
    /\ bulk_misses = pre.bulk_misses + 1
    /\ pre.bulk_misses > 0

\* the keys the last get appended to refresh_batch before delegating
Appended == SubSeq(queued, Len(pre.refresh_batch) + 1, Len(queued))

FirstIndex(s, k) ==
    CHOOSE i \in DOMAIN s : s[i] = k /\ \A j \in 1..(i - 1) : s[j] # k

\* present, unexpired, near expiry and not yet queued when the get started
Eligible(k) ==
    /\ PreHeld(k)
    /\ PreAge(k) <= ttl_seconds
    /\ PreAge(k) * HalfTtlDen > ttl_seconds * HalfTtlNum
    /\ k \notin Range(pre.refresh_batch)

\* C9: a get of the batch layer appends to the pending queue exactly the
\* requested keys that are present, unexpired, near expiry (age strictly
\* above half_ttl * ttl) and not already queued, in first-seen order.
EnqueuesNearExpiryKeys ==
    (IsGet /\ layer = "batch") =>
      /\ Len(queued) >= Len(pre.refresh_batch)
      /\ SubSeq(queued, 1, Len(pre.refresh_batch)) = pre.refresh_batch
      /\ Range(Appended) = {k \in Range(lastKeys) : Eligible(k)}
      /\ \A a, b \in Range(Appended) :
           FirstIndex(Appended, a) < FirstIndex(Appended, b)
             <=> FirstIndex(lastKeys, a) < FirstIndex(lastKeys, b)

\* C9 witness: one get enqueued an entry of age ttl and did not enqueue an
\* entry of age exactly half_ttl * ttl
EnqueueBoundaryWitness ==
    /\ IsGet /\ layer = "batch"
    /\ \E i, j \in Occurrences :
         /\ PreHeld(lastKeys[i]) /\ PreAge(lastKeys[i]) = ttl_seconds
         /\ lastKeys[i] \in Range(Appended)
         /\ PreHeld(lastKeys[j])
         /\ PreAge(lastKeys[j]) * HalfTtlDen = ttl_seconds * HalfTtlNum
         /\ lastKeys[j] \notin Range(queued)

\* C10: when the queue has reached max_request_size in a get of the batch
\* layer, every queued key still held gets the request time and moves
\* behind the keys that are not queued, evicted queued keys stay out,
\* batch_updates grows by one and the queue is empty afterwards.
FlushRefreshesQueuedKeys ==
    (IsGet /\ layer = "batch" /\ Len(queued) >= max_request_size) =>
      /\ \A k \in Range(queued) :
           /\ Contains(mid, k) =>
                /\ Contains(cache, k)
                /\ Timestamp(cache, k) = lastTime
                /\ \A x \in CacheKeys(cache) \ Range(queued) :
                     Pos(cache, x) < Pos(cache, k)
           /\ ~Contains(mid, k) => ~Contains(cache, k)
      /\ CacheKeys(cache) = CacheKeys(mid)
      /\ \A x \in CacheKeys(cache) \ Range(queued) :
           Timestamp(cache, x) = Timestamp(mid, x)
      /\ batch_updates = pre.batch_updates + 1
      /\ refresh_batch = <<>>

\* C10 witness: a flush of two queued keys, one evicted by this get and
\* skipped, the other refreshed from an older timestamp and moved behind
\* an entry that is not queued
FlushSkipsEvictedWitness ==
    /\ IsGet /\ layer = "batch"
    /\ Len(queued) >= max_request_size
    /\ Len(queued) = 2
    /\ pre.refresh_batch # <<>>
    /\ ~Contains(cache, queued[1])
    /\ Contains(cache, queued[2])
    /\ PreTs(queued[2]) < lastTime
    /\ cache[Len(cache)].key = queued[2]
    /\ Len(cache) = 2
    /\ Pos(mid, queued[2]) = 1

\* C11 (as stated): the pending queue never holds a key twice.
QueueHasNoDuplicates ==
    layer = "batch" => Cardinality(Range(refresh_batch)) = Len(refresh_batch)

\* C12: a get with an empty key list returns an empty result and changes
\* no field: cache contents, timestamps, order, counters and queue.
EmptyGetChangesNothing ==
    (IsGet /\ lastKeys = <<>>) =>
      /\ Fields = pre
      /\ outcome = <<>>
      /\ evicted = <<>>

\* C12 witness: an empty get on a cache with a pending queue, at a time at
\* which a held entry is older than ttl
EmptyGetOnStaleCacheWitness ==
    /\ IsGet /\ lastKeys = <<>>
    /\ refresh_batch # <<>>
    /\ \E i \in DOMAIN cache : lastTime - cache[i].ts > ttl_seconds
    /\ misses > 0 /\ hits > 0

\* C13: clear empties the cache and the pending queue, zeroes every
\* counter and leaves the configuration alone; a second clear in a row
\* changes no field.
ClearResetsEverything ==
    [][op' = "clear" =>
         /\ cache' = <<>>
         /\ refresh_batch' = <<>>
         /\ hits' = 0 /\ misses' = 0 /\ bulk_misses' = 0
         /\ evictions' = 0 /\ expirations' = 0 /\ batch_updates' = 0
         /\ config' = config
         /\ (op = "clear" => fields' = fields)]_vars

\* C13 witness: the second of two clears in a row, after a get had filled
\* the cache
SecondClearWitness ==
    /\ op = "clear"
    /\ calls >= 3
    /\ lastKeys # <<>>
    /\ pre.cache = <<>>
    /\ pre.misses = 0
    /\ cache = <<>>

\* the get that follows the last one at the same request time
GetAgain(keys) ==
    IF layer = "batch"
    THEN BatchGet(Start, keys, lastTime)
    ELSE LRUGet(Start, keys, lastTime)

HitAgain(k) == GetAgain(<<k>>).outcome = <<"hit">>

\* C15 (as stated): every key held after a get is a hit in a get that
\* follows at the same request time.
HeldKeysHitAgain ==
    IsGet => \A k \in CacheKeys(cache) : HitAgain(k)

\* C15 (amended): every key that the get requested, or that its refresh
\* batch rewrote, and that is held after the get is a hit in a get that
\* follows at the same request time.
TouchedKeysHitAgain ==
    IsGet =>
      /\ \A k \in CacheKeys(cache) :
           (k \in Range(lastKeys) \/ Flushed(k)) => HitAgain(k)
      /\ \A i \in Occurrences :
           Contains(cache, lastKeys[i])
             => GetAgain(lastKeys).outcome[i] = "hit"

\* C15 witness: the get reinserted an expired key, which is a hit again,
\* next to a held key it did not request and that is older than ttl
StaleNeighbourWitness ==
    /\ IsGet
    /\ \E k \in Range(lastKeys) :
         Expired(k) /\ Contains(cache, k) /\ HitAgain(k)
    /\ \E x \in CacheKeys(cache) \ Range(lastKeys) :
         /\ lastTime - Timestamp(cache, x) > ttl_seconds
         /\ ~Flushed(x)

\* the queued keys the refresh batch of the last get rewrote
Refreshed == SelectSeq(queued, LAMBDA k : Contains(cache, k))

\* C18: after a get whose refresh batch ran, a get of the refreshed keys at
\* the same request time reports hits only, leaves the queue empty and
\* runs no further batch.
RefreshedKeysAreFresh ==
    (IsGet /\ layer = "batch" /\ Len(queued) >= max_request_size) =>
      LET st == BatchGet(Start, Refreshed, lastTime) IN
        /\ \A i \in DOMAIN Refreshed : st.outcome[i] = "hit"
        /\ Len(st.outcome) = Len(Refreshed)
        /\ st.queued = <<>>
        /\ st.refresh_batch = <<>>
        /\ st.batch_updates = batch_updates

\* C18 witness: the refresh batch rewrote two keys that were older than
\* the request time
TwoKeysRefreshedWitness ==
    /\ IsGet /\ layer = "batch"
    /\ Len(queued) >= max_request_size
    /\ Cardinality(Range(Refreshed)) = 2
    /\ \A k \in Range(Refreshed) : PreHeld(k) /\ PreTs(k) < lastTime

\* C19: when the queue is below max_request_size after the extend, the get
\* runs no refresh batch, whatever the request time: batch_updates and the
\* cache left by the lookup are unchanged and the queued keys stay queued.
NoFlushBelowThreshold ==
    (IsGet /\ layer = "batch" /\ Len(queued) < max_request_size) =>
      /\ batch_updates = pre.batch_updates
      /\ refresh_batch = queued
      /\ SubSeq(refresh_batch, 1, Len(pre.refresh_batch)) = pre.refresh_batch
      /\ cache = mid

\* C19 witness: a key queued by an earlier get is still queued after a get
\* at a time at which it is older than ttl
QueuedKeyExpiredWitness ==
    /\ IsGet /\ layer = "batch"
    /\ lastKeys # <<>>
    /\ pre.refresh_batch # <<>>
    /\ \E k \in Range(pre.refresh_batch) :
         /\ k \in Range(refresh_batch)
         /\ k \notin Range(lastKeys)
         /\ Contains(cache, k)
         /\ lastTime - Timestamp(cache, k) > ttl_seconds

\* C20: after every get of a batch layer the pending queue is shorter than
\* max_request_size.
QueueBelowThreshold ==
    (IsGet /\ layer = "batch") => Len(refresh_batch) < max_request_size

\* C20 witness: one get queued more keys than max_request_size and ran the
\* refresh batch before it returned
ManyKeysQueuedWitness ==
    /\ IsGet /\ layer = "batch"
    /\ Len(queued) > max_request_size
    /\ refresh_batch = <<>>
    /\ batch_updates = pre.batch_updates + 1

\* C16: the order of the cache is the order of last touch: a key last
\* touched in an earlier operation than another held key is nearer to the
\* eviction end.
OrderMatchesLastTouch ==
    /\ DOMAIN touched_in = CacheKeys(cache)
    /\ \A i, j \in DOMAIN cache :
         touched_in[cache[i].key] < touched_in[cache[j].key] => i < j

\* C16 witness: the refresh batch of the last get moved a key it had not
\* requested behind a key that no part of the get touched
RefreshReordersWitness ==
    /\ IsGet /\ layer = "batch"
    /\ \E x, y \in CacheKeys(cache) :
         /\ Flushed(x) /\ x \notin Range(lastKeys)
         /\ PreHeld(x) /\ PreHeld(y)
         /\ touched_in[y] < calls
         /\ touched_in[x] = calls
         /\ Pos(mid, x) < Pos(mid, y)
         /\ Pos(cache, y) < Pos(cache, x)

\* the calls of the example trace
ExampleCalls ==
    << [keys |-> <<1, 2, 3>>, t |-> 0], [keys |-> <<4>>, t |-> 1],
       [keys |-> <<2>>, t |-> 5],       [keys |-> <<2>>, t |-> 6],
       [keys |-> <<3>>, t |-> 7],       [keys |-> <<4>>, t |-> 12] >>

\* the fields the example trace gives after 0, 1, ..., 6 calls
ExampleFields(n) ==
    CASE n = 0 ->
           [cache |-> <<>>, hits |-> 0, misses |-> 0, bulk_misses |-> 0,
            evictions |-> 0, expirations |-> 0, refresh_batch |-> <<>>,
            batch_updates |-> 0]
      [] n = 1 ->
           [cache |-> <<Entry(1, 0), Entry(2, 0), Entry(3, 0)>>,
            hits |-> 0, misses |-> 3, bulk_misses |-> 1,
            evictions |-> 0, expirations |-> 0, refresh_batch |-> <<>>,
            batch_updates |-> 0]
      [] n = 2 ->
           [cache |-> <<Entry(2, 0), Entry(3, 0), Entry(4, 1)>>,
            hits |-> 0, misses |-> 4, bulk_misses |-> 2,
            evictions |-> 1, expirations |-> 0, refresh_batch |-> <<>>,
            batch_updates |-> 0]
      [] n = 3 ->
           [cache |-> <<Entry(3, 0), Entry(4, 1), Entry(2, 0)>>,
            hits |-> 1, misses |-> 4, bulk_misses |-> 2,
            evictions |-> 1, expirations |-> 0, refresh_batch |-> <<>>,
            batch_updates |-> 0]
      [] n = 4 ->
           [cache |-> <<Entry(3, 0), Entry(4, 1), Entry(2, 0)>>,
            hits |-> 2, misses |-> 4, bulk_misses |-> 2,
            evictions |-> 1, expirations |-> 0, refresh_batch |-> <<2>>,
            batch_updates |-> 0]
      [] n = 5 ->
           [cache |-> <<Entry(4, 1), Entry(2, 7), Entry(3, 7)>>,
            hits |-> 3, misses |-> 4, bulk_misses |-> 2,
            evictions |-> 1, expirations |-> 0, refresh_batch |-> <<>>,
            batch_updates |-> 1]
      [] n = 6 ->
           [cache |-> <<Entry(2, 7), Entry(3, 7), Entry(4, 12)>>,
            hits |-> 3, misses |-> 5, bulk_misses |-> 3,
            evictions |-> 1, expirations |-> 1, refresh_batch |-> <<>>,
            batch_updates |-> 1]

\* the last get was call n of the example trace, on the fields the trace
\* had given so far
ExampleStep(n) ==
    /\ IsGet
    /\ pre = ExampleFields(n - 1)
    /\ lastKeys = ExampleCalls[n].keys
    /\ lastTime = ExampleCalls[n].t

\* C17: the example trace of the spec, call by call: three misses; the
\* eviction of key 1; a hit on 2 that queues nothing; a hit on 2 that
\* queues it; key 3 queued and the flush that gives 2 and 3 the time 7;
\* the expiration of key 4, which stays held with timestamp 12.
ExampleTrace ==
    /\ \A n \in 1..6 : ExampleStep(n) => Fields = ExampleFields(n)
    /\ ExampleStep(1) =>
         /\ misses = 3 /\ bulk_misses = 1 /\ Len(cache) = 3
         /\ outcome = <<"miss", "miss", "miss">>
    /\ ExampleStep(2) =>
         /\ CacheKeys(cache) = {2, 3, 4} /\ evictions = 1 /\ Len(cache) = 3
         /\ Len(evicted) = 1 /\ evicted[1].key = 1
    /\ ExampleStep(3) =>
         /\ outcome = <<"hit">> /\ refresh_batch = pre.refresh_batch
         /\ queued = <<>>
    /\ ExampleStep(4) =>
         /\ outcome = <<"hit">> /\ refresh_batch = <<2>>
    /\ ExampleStep(5) =>
         /\ queued = <<2, 3>>
         /\ Timestamp(cache, 2) = 7 /\ Timestamp(cache, 3) = 7
         /\ batch_updates = 1 /\ refresh_batch = <<>>
    /\ ExampleStep(6) =>
         /\ outcome = <<"expired">>
         /\ expirations = 1 /\ evictions = 1
         /\ Contains(cache, 4) /\ Timestamp(cache, 4) = 12

\* C17 witness: the sixth call of the example trace has been made
ExampleTraceEndWitness ==
    /\ calls = 6
    /\ ExampleStep(6)
    /\ Fields = ExampleFields(6)

\* the configuration the spec accepts
ValidConfiguration ==
    /\ max_size > 0
    /\ ttl_seconds > 0
    /\ 0 < HalfTtlNum /\ HalfTtlNum <= HalfTtlDen
    /\ layer = "batch" => max_request_size > 0

\* C14 (as stated): construction with max_size <= 0, ttl <= 0, half_ttl
\* outside (0, 1] or max_request_size <= 0 fails, so that no cache with
\* such a configuration ever serves a get.
InvalidConfigurationRejected ==
    (IsGet /\ raised = "none") => ValidConfiguration

\* C22 (as stated): after a get whose key list has at most max_size
\* distinct keys, every requested key is held, also when the list repeats
\* keys.
RequestedKeysHeld ==
    (IsGet /\ raised = "none" /\ Cardinality(Range(lastKeys)) <= max_size)
        => \A k \in Range(lastKeys) : Contains(cache, k)

\* the two objects hold the same keys with the same timestamps in the
\* same order and have the same counters
BaseAgrees ==
    /\ cache = base.cache
    /\ hits = base.hits
    /\ misses = base.misses
    /\ bulk_misses = base.bulk_misses
    /\ evictions = base.evictions
    /\ expirations = base.expirations

\* C21: given the same sequence of gets, the batch layer and a base cache
\* with the same max_size and ttl agree on held keys, timestamps, order and
\* all five counters after every get for as long as no refresh batch has
\* run.
DelegatesUnchanged ==
    (IsGet /\ batch_updates = 0) => BaseAgrees

\* C21 witness: the third get left keys in the refresh queue, no batch has
\* run, and the calls so far hit, expired and evicted keys
EnqueuedOnlyWitness ==
    /\ IsGet
    /\ calls = MaxCalls
    /\ batch_updates = 0
    /\ refresh_batch # <<>>
    /\ hits > 0 /\ expirations > 0 /\ evictions > 0

====
